---- MODULE Spec2Model ----
(***************************************************************************)
(* Model of the tiled MatMatMul driver                                     *)
(* (linalg/src/frame/mmm/mmm.rs, MatMatMulImpl::run_with_scratch_space)    *)
(* and of the Im2Col operator (core/src/ops/cnn/conv/im2col.rs).           *)
(***************************************************************************)
EXTENDS Integers, Sequences, FiniteSets, TLC

\* ------------------------------------------------------------------ bounds

\* m, k, n of a MatMatMulImpl range over 0..MaxM, 0..MaxK, 0..MaxN.
MaxM == 5
MaxN == 5
MaxK == 2
\* At most this many microkernel invocations of one run return non-zero.
MaxKernelErrors == 1
\* K::end_padding_packed_a() and K::end_padding_packed_b() range over
\* 0..MaxEndPadding.
MaxEndPadding == 1

\* K::alignment_bytes_packed_a() / _b(), and dt.size_of() of the datum types.
Alignments == {4, 16}

DatumSizes == {1, 4}

\* K::mr() and K::nr(): static properties of the microkernel.
TileSizes == {1, 2, 4}

\* TI of the MatMatMulImpl under study, and the scratch spaces a caller may
\* hand to run_with_scratch_space.
TI == "i32"
ScratchTypes ==
    { [kind |-> "ScratchSpaceFusedNonLinear", ti |-> "i32"],
      [kind |-> "ScratchSpaceFusedNonLinear", ti |-> "f32"],
      [kind |-> "Other", ti |-> "none"] }

\* The operands: the entries of A and B are fixed by a seed, and the rows
\* (columns) that pad the last panel of a packed operand hold `pad`.
Operands == { [seed |-> 1, pad |-> 9] }

\* What an element of the scratch tile holds when the kernel did not write it.
Garbage == -2

VARIABLES
    mr, nr,         \* K::mr(), K::nr()
    m, k, n,        \* MatMatMulImpl { m, k, n }
    operands,       \* the A and B handed to the call
    build,          \* "debug" or "release": whether debug_assert_eq! is compiled
    pc,             \* position of the call
    entry,          \* "run" or "run_with_scratch_space"
    scratch,        \* the scratch space handed to run_with_scratch_space
    ia, ib,         \* the loop counters
    c,              \* the elements of C written so far: <<i, j>> -> value
    calls,          \* the microkernel invocations so far, in order
    nErr,           \* how many of them returned non-zero
    result          \* "none", "Ok", "WrongScratch", "Panic"

mmmVars == <<mr, nr, m, k, n, operands, build, pc, entry, scratch, ia, ib, c,
             calls, nErr, result>>

VARIABLES
    op,             \* the Im2Col: pool_spec, group, k, b_pack
    inShape,        \* the shape of the input tensor (eval inserts an axis)
    padInput,       \* the optional second input of eval: <<>> or <<value>>
    geometry,       \* the ConcreteGeometry eval resolved
    outShape,       \* the shape of the output tensor
    out,            \* the elements of the output buffer written so far
    ei, eg,         \* the loop counters i and g of eval
    patchLog,       \* the Patcher invocations so far, in order
    epc,            \* position of eval
    eresult         \* "none", "Ok", "ShapeError"

imVars == <<op, inShape, padInput, geometry, outShape, out, ei, eg, patchLog,
            epc, eresult>>

VARIABLES
    K,              \* the packing properties of the microkernel K
    packers,        \* what a_pack() and b_pack() returned, "none" before
    stores          \* what a_packed(dt) and b_packed(dt) returned

packVars == <<K, packers, stores>>

vars == <<mmmVars, imVars, packVars>>

\* ----------------------------------------------------------------- helpers

Min(x, y) == IF x < y THEN x ELSE y

CeilDiv(x, y) == (x + y - 1) \div y

\* ---------------------------------------------------------------- operands

\* The logical matrices A (m x k) and B (k x n).
A(i, kk) == 1 + ((2 * i + 3 * kk + operands.seed) % 5)

B(kk, j) == 1 + ((3 * j + kk + 2 * operands.seed) % 7)

\* a.panel_a(p): rows [p*mr, p*mr + mr) of A, the rows past m being padding.
PanelA(p, r, kk) == IF p * mr + r < m THEN A(p * mr + r, kk) ELSE operands.pad

\* b.panel_b(p): columns [p*nr, p*nr + nr) of B, the columns past n being padding.
PanelB(p, kk, cc) == IF p * nr + cc < n THEN B(kk, p * nr + cc) ELSE operands.pad

\* The microkernel, on success: element (r, cc) of the mr x nr product of
\* A panel pa and B panel pb over linear.k terms.
RECURSIVE KernelAcc(_, _, _, _, _)
KernelAcc(pa, pb, r, cc, kk) ==
    IF kk = 0 THEN 0
    ELSE KernelAcc(pa, pb, r, cc, kk - 1)
         + PanelA(pa, r, kk - 1) * PanelB(pb, kk - 1, cc)

Kernel(call, r, cc) == KernelAcc(call.pa, call.pb, r, cc, call.lin)

\* -------------------------------------------------- scratch space (209-232)

AllocateScratchSpace == [kind |-> "ScratchSpaceFusedNonLinear", ti |-> TI]

\* scratch.downcast_ref::<ScratchSpaceFusedNonLinear<TI>>().is_some()
CanUseScratchSpace(s) == s.kind = "ScratchSpaceFusedNonLinear" /\ s.ti = TI

\* Mutant: the downcast looks at the scratch space's kind only, not at its TI.
DowncastMut_KindOnly(s) == s.kind = "ScratchSpaceFusedNonLinear"

\* scratch.downcast_mut::<ScratchSpaceFusedNonLinear<TI>>() is Some
DowncastMut(s) == s.kind = "ScratchSpaceFusedNonLinear" /\ s.ti = TI

\* ------------------------------------------------- kernel call sites

\* One invocation of K::kernel: the tile (down, right) it is for (for_tile,
\* tile_c, set_from_tile), the A and B panels it is given, the linear spec,
\* the C target and, for a scratch target, the rectangle set_from_tile copies.
KerCall(down, right, pa, pb, target, rows, cols) ==
    [down |-> down, right |-> right, pa |-> pa, pb |-> pb, lin |-> k,
     target |-> target, rows |-> rows, cols |-> cols]

IsMatVec == nr = 1 /\ n = 1

\* lines 238-250: full A panel, nr == 1 && n == 1
MatVecFullCall(i) == KerCall(i, 0, i, 0, "direct", mr, nr)

\* lines 252-266: full A panel, full B panel
FullTileCall(i, j) == KerCall(i, j, i, j, "direct", mr, nr)

\* Mutant: the partial-N tile of a full A panel is written directly into C.
PartialNCall_Direct(i) ==
    KerCall(i, n \div nr, i, n \div nr, "direct", mr, nr)

\* lines 267-282: full A panel, partial B panel
PartialNCall(i) ==
    KerCall(i, n \div nr, i, n \div nr, "scratch", mr, n % nr)

\* Mutant: the dedicated branch copies back mr rows, as for a full A panel.
MatVecLastCall_FullRows == KerCall(m \div mr, 0, m \div mr, 0, "scratch", mr, nr)

\* lines 287-301: partial A panel, nr == 1 && n == 1
MatVecLastCall == KerCall(m \div mr, 0, m \div mr, 0, "scratch", m % mr, nr)

\* lines 303-318: partial A panel, full B panel
LastFullCall(j) == KerCall(m \div mr, j, m \div mr, j, "scratch", m % mr, nr)

\* Mutant: the last tile is given B panel 0 instead of B panel n / nr.
LastPartialCall_FirstPanel ==
    KerCall(m \div mr, n \div nr, m \div mr, 0, "scratch", m % mr, n % nr)

\* lines 319-334: partial A panel, partial B panel
LastPartialCall ==
    KerCall(m \div mr, n \div nr, m \div mr, n \div nr, "scratch", m % mr, n % nr)

\* The elements of C one invocation writes: a direct target is written by the
\* kernel itself (the whole mr x nr tile at c.tile_c(down, right)), a scratch
\* target by set_from_tile(down, right, rows, cols, tmpc).
Written(call, wrote) ==
    IF call.target = "direct"
    THEN IF wrote
         THEN { <<call.down * mr + r, call.right * nr + cc>> :
                    r \in 0 .. mr - 1, cc \in 0 .. nr - 1 }
         ELSE {}
    ELSE { <<call.down * mr + r, call.right * nr + cc>> :
                r \in 0 .. call.rows - 1, cc \in 0 .. call.cols - 1 }

\* C after one invocation; `wrote` is whether the kernel wrote its target,
\* `copied` whether set_from_tile ran.
SetTile(cur, call, wrote, copied) ==
    LET new == IF call.target = "scratch" /\ ~copied THEN {}
               ELSE Written(call, wrote)
    IN  [p \in DOMAIN cur \cup new |->
            IF p \in new
            THEN IF wrote
                 THEN Kernel(call, p[1] - call.down * mr, p[2] - call.right * nr)
                 ELSE Garbage
            ELSE cur[p]]

\* ------------------------------------------------------------ the driver

\* The value of packers and stores before the query that sets them.
NoneYet == [kind |-> "none"]

\* No packing query has been made of the MatMatMulImpl.
PackIdle ==
    /\ K = [end_padding_packed_a |-> 0, end_padding_packed_b |-> 0,
              alignment_bytes_packed_a |-> 4, alignment_bytes_packed_b |-> 4]
    /\ packers = [a |-> NoneYet, b |-> NoneYet]
    /\ stores = [a |-> NoneYet, b |-> NoneYet]

\* No eval is in progress.
Im2ColIdle ==
    /\ op = [fmt |-> "NCHW", group |-> 1, kernel |-> <<1>>, strides |-> <<1>>,
             padding |-> "Valid", k |-> 1, pw |-> 1, ep |-> 0]
    /\ inShape = << >>
    /\ padInput = << >>
    /\ geometry = << >>
    /\ outShape = << >>
    /\ out = << >>
    /\ ei = 0 /\ eg = 0
    /\ patchLog = << >>
    /\ epc = "off"
    /\ eresult = "none"

\* No matmul call is in progress.
MMMIdle ==
    /\ mr = 1 /\ nr = 1 /\ m = 0 /\ k = 0 /\ n = 0
    /\ operands = [seed |-> 0, pad |-> 0]
    /\ build = "release"
    /\ pc = "off"
    /\ entry = "none"
    /\ scratch = [kind |-> "none", ti |-> "none"]
    /\ ia = 0 /\ ib = 0
    /\ c = << >>
    /\ calls = << >>
    /\ nErr = 0
    /\ result = "none"

InitMMM ==
    /\ Im2ColIdle
    /\ PackIdle
    /\ mr \in TileSizes
    /\ nr \in TileSizes
    /\ m \in 0 .. MaxM
    /\ k \in 0 .. MaxK
    /\ n \in 0 .. MaxN
    /\ operands \in Operands
    /\ build \in {"debug", "release"}
    /\ pc = "idle"
    /\ entry = "none"
    /\ scratch = [kind |-> "none", ti |-> "none"]
    /\ ia = 0
    /\ ib = 0
    /\ c = << >>
    /\ calls = << >>
    /\ nErr = 0
    /\ result = "none"

\* lines 225-234: the downcast of the scratch space, then the tile loops.
Enter(how, s) ==
    /\ pc = "idle"
    /\ entry' = how
    /\ scratch' = s
    /\ IF DowncastMut(s)
       THEN pc' = "full" /\ result' = result
       ELSE pc' = "done" /\ result' = "WrongScratch"
    /\ UNCHANGED <<mr, nr, m, k, n, operands, build, ia, ib, c, calls, nErr>>
    /\ UNCHANGED <<imVars, packVars>>

\* lines 38-47: MatMatMul::run
Run == Enter("run", AllocateScratchSpace)

\* lines 217-232: run_with_scratch_space with a caller's scratch space
RunWithScratchSpace == \E s \in ScratchTypes : Enter("run_with_scratch_space", s)

\* K::kernel(..) and what follows it at one call site: the kernel's status err,
\* debug_assert_eq!(err, 0), then set_from_tile for a scratch target, then the
\* position the loops go on from.
KernelStep(call, npc, nia, nib) ==
    \E err \in {0, 1}, wrote \in BOOLEAN :
        /\ err = 0 => wrote
        /\ err # 0 => nErr < MaxKernelErrors
        /\ calls' = Append(calls, call)
        /\ nErr' = IF err # 0 THEN nErr + 1 ELSE nErr
        /\ IF err # 0 /\ build = "debug"
           THEN /\ pc' = "done"
                /\ result' = "Panic"
                /\ c' = SetTile(c, call, wrote, FALSE)
                /\ UNCHANGED <<ia, ib>>
           ELSE /\ pc' = npc
                /\ result' = result
                /\ c' = SetTile(c, call, wrote, TRUE)
                /\ ia' = nia
                /\ ib' = nib
        /\ UNCHANGED <<mr, nr, m, k, n, operands, build, entry, scratch>>
        /\ UNCHANGED <<imVars, packVars>>

Goto(npc, nia, nib) ==
    /\ pc' = npc
    /\ ia' = nia
    /\ ib' = nib
    /\ UNCHANGED <<mr, nr, m, k, n, operands, build, entry, scratch, c, calls,
                   nErr, result>>
    /\ UNCHANGED <<imVars, packVars>>

\* lines 237-250
MatVecFullTile ==
    /\ pc = "full" /\ ia < m \div mr /\ IsMatVec
    /\ KernelStep(MatVecFullCall(ia), "full", ia + 1, 0)

\* lines 252-266
FullTile ==
    /\ pc = "full" /\ ia < m \div mr /\ ~IsMatVec /\ ib < n \div nr
    /\ KernelStep(FullTileCall(ia, ib), "full", ia, ib + 1)

\* Mutant: the partial-N tile of a full A panel is skipped.
PartialNTile_Skipped ==
    /\ pc = "full" /\ ia < m \div mr /\ ~IsMatVec /\ ib = n \div nr
    /\ n % nr # 0
    /\ Goto("full", ia + 1, 0)

\* lines 267-282
PartialNTile ==
    /\ pc = "full" /\ ia < m \div mr /\ ~IsMatVec /\ ib = n \div nr
    /\ n % nr # 0
    /\ KernelStep(PartialNCall(ia), "full", ia + 1, 0)

\* lines 267, 283-284: no partial B panel, next A panel
RowEnd ==
    /\ pc = "full" /\ ia < m \div mr /\ ~IsMatVec /\ ib = n \div nr
    /\ n % nr = 0
    /\ Goto("full", ia + 1, 0)

\* lines 235, 285: the loop over the full A panels ends
FullPanelsEnd ==
    /\ pc = "full" /\ ia = m \div mr
    /\ IF m % mr # 0 THEN Goto("last", ia, 0) ELSE Goto("ret", ia, 0)

\* lines 287-301
MatVecLastTile ==
    /\ pc = "last" /\ IsMatVec
    /\ KernelStep(MatVecLastCall, "ret", ia, 0)

\* lines 303-318
LastFullTile ==
    /\ pc = "last" /\ ~IsMatVec /\ ib < n \div nr
    /\ KernelStep(LastFullCall(ib), "last", ia, ib + 1)

\* lines 319-334
LastPartialTile ==
    /\ pc = "last" /\ ~IsMatVec /\ ib = n \div nr
    /\ n % nr # 0
    /\ KernelStep(LastPartialCall, "ret", ia, 0)

\* lines 319, 335-336: no partial B panel
LastRowEnd ==
    /\ pc = "last" /\ ~IsMatVec /\ ib = n \div nr
    /\ n % nr = 0
    /\ Goto("ret", ia, 0)

\* line 337: Ok(())
Return ==
    /\ pc = "ret"
    /\ pc' = "done"
    /\ result' = "Ok"
    /\ UNCHANGED <<mr, nr, m, k, n, operands, build, entry, scratch, ia, ib, c,
                   calls, nErr>>
    /\ UNCHANGED <<imVars, packVars>>

NextMMM ==
    \/ Run
    \/ RunWithScratchSpace
    \/ MatVecFullTile
    \/ FullTile
    \/ PartialNTile
    \/ RowEnd
    \/ FullPanelsEnd
    \/ MatVecLastTile
    \/ LastFullTile
    \/ LastPartialTile
    \/ LastRowEnd
    \/ Return

\* ---------------------------------------------------------------- Im2Col
\* The Im2Col operators under study. A pool shape is the spatial part of an
\* input together with the kernel shape and strides of the PoolSpec.
MaxDim == 2
MaxBatch == 2

Formats == {"NCHW", "NHWC", "CHW", "HWC"}

Groups == {1, 2}

ChannelsPerGroup == {1, 2}

Paddings == {"Valid", "SameUpper"}

\* (panel width, end_padding) of the kernel's B packer.
BPacks == { [pw |-> 1, ep |-> 0], [pw |-> 2, ep |-> 1] }

\* The optional pad-value input of eval: absent, or a scalar.
PadInputs == { << >>, <<7>> }

PoolShapes ==
    { [sp |-> <<d>>, kernel |-> <<kh>>, strides |-> <<sh>>] :
          d \in 1 .. MaxDim, kh \in {1, 2}, sh \in {1, 2} }
    \cup
    { [sp |-> <<d, e>>, kernel |-> ks, strides |-> st] :
          d \in 1 .. MaxDim, e \in {1, 2},
          ks \in {<<1, 1>>, <<1, 2>>, <<2, 2>>},
          st \in {<<1, 1>>, <<1, 2>>, <<2, 1>>} }
    \cup
    { [sp |-> <<2, d, 2>>, kernel |-> ks, strides |-> <<1, 1, 1>>] :
          d \in 1 .. MaxDim,
          ks \in {<<1, 1, 1>>, <<2, 1, 1>>, <<1, 2, 2>>} }

RECURSIVE Prod(_)
Prod(s) == IF s = << >> THEN 1 ELSE Head(s) * Prod(Tail(s))

RECURSIVE SumSeq(_)
SumSeq(s) == IF s = << >> THEN 0 ELSE Head(s) + SumSeq(Tail(s))

\* ------------------------------------------- DataFormat and DataShape

HasN(fmt) == fmt \in {"NCHW", "NHWC"}

\* lines 92-96: data_format_with_n
WithN(fmt) ==
    CASE fmt = "HWC" -> "NHWC"
      [] fmt = "CHW" -> "NCHW"
      [] OTHER -> fmt

\* The axis (1-based) of C and of the first spatial dimension in `shape`.
CAxis(fmt, shape) ==
    CASE fmt = "NCHW" -> 2
      [] fmt = "CHW" -> 1
      [] OTHER -> Len(shape)

HAxis(fmt) ==
    CASE fmt = "NCHW" -> 3
      [] fmt = "HWC" -> 1
      [] OTHER -> 2

\* The stride, in elements, of axis ax of a contiguous tensor of this shape.
DimStride(shape, ax) == Prod(SubSeq(shape, ax + 1, Len(shape)))

c_dim(fmt, shape) == shape[CAxis(fmt, shape)]

c_stride(fmt, shape) == DimStride(shape, CAxis(fmt, shape))

hw_dims(fmt, shape, rank) == [r \in 1 .. rank |-> shape[HAxis(fmt) + r - 1]]

hw_stride(fmt, shape, r) == DimStride(shape, HAxis(fmt) + r - 1)

\* data_format.shape(shape): the DataShape of a tensor shape.
DataShapeOf(fmt, shape, rank) ==
    [n |-> IF HasN(fmt) THEN shape[1] ELSE 1,
     c |-> c_dim(fmt, shape),
     hw_dims |-> hw_dims(fmt, shape, rank),
     c_stride |-> c_stride(fmt, shape),
     h_stride |-> hw_stride(fmt, shape, 1),
     w_stride |-> hw_stride(fmt, shape, rank),
     size |-> Prod(shape)]

\* data_format.shape(shape) succeeds: the shape has the rank the PoolSpec wants.
ShapeOk(o, shape) ==
    Len(shape) = Len(o.kernel) + (IF HasN(o.fmt) THEN 2 ELSE 1)

\* The shape of an input tensor.
FullShape(fmt, batch, chans, sp) ==
    CASE fmt = "NCHW" -> <<batch, chans>> \o sp
      [] fmt = "NHWC" -> <<batch>> \o sp \o <<chans>>
      [] fmt = "CHW" -> <<chans>> \o sp
      [] OTHER -> sp \o <<chans>>

\* tensor.insert_axis(at), tensor.remove_axis(at); `at` is 0-based.
InsertAxis(shape, at) ==
    SubSeq(shape, 1, at) \o <<1>> \o SubSeq(shape, at + 1, Len(shape))

RemoveAxis(shape, at) ==
    SubSeq(shape, 1, at) \o SubSeq(shape, at + 2, Len(shape))

\* The offset of tensor.view_at_prefix(prefix) in a contiguous tensor.
PrefixOffset(shape, prefix) ==
    SumSeq([j \in 1 .. Len(prefix) |-> prefix[j] * DimStride(shape, j)])

\* ------------------------------------------------- PoolSpec and Patch

\* One axis of pool_spec.output_shape / PoolGeometry: the output dimension and
\* the padding before the input, for Valid and SameUpper padding.
OutDim(dim, ker, stride, padding) ==
    IF padding = "Valid"
    THEN IF dim >= ker THEN (dim - ker) \div stride + 1 ELSE 0
    ELSE CeilDiv(dim, stride)

PadBefore(dim, ker, stride, padding) ==
    IF padding = "Valid" THEN 0
    ELSE LET total == (OutDim(dim, ker, stride, padding) - 1) * stride + ker - dim
         IN  IF total > 0 THEN total \div 2 ELSE 0

\* pool_spec.output_shape(shape).hw_dims()
OutputHW(o, shape) ==
    [r \in 1 .. Len(o.kernel) |->
        OutDim(hw_dims(o.fmt, shape, Len(o.kernel))[r], o.kernel[r],
               o.strides[r], o.padding)]

\* Coordinate r of the t-th (0-based) point of the row-major lattice `dims`.
Coord(dims, t, r) == (t \div Prod(SubSeq(dims, r + 1, Len(dims)))) % dims[r]

\* The Patch that pool_geometry.to_concrete(shape) resolves. Kernel element i
\* (0-based, row-major over the kernel shape) has data_field[i+1][r], its
\* displacement on axis r, and standard_layout_data_field[i+1], its offset in
\* an input with the strides of `shape`.
MakePatch(o, shape) ==
    LET rank == Len(o.kernel)
        dims == hw_dims(o.fmt, shape, rank)
        istrides == [r \in 1 .. rank |-> hw_stride(o.fmt, shape, r)]
        pb == [r \in 1 .. rank |->
                  PadBefore(dims[r], o.kernel[r], o.strides[r], o.padding)]
        os == OutputHW(o, shape)
        df == [i \in 1 .. Prod(o.kernel) |->
                  [r \in 1 .. rank |-> Coord(o.kernel, i - 1, r) - pb[r]]]
    IN  [kernel |-> o.kernel,
         strides |-> o.strides,
         dims |-> dims,
         istrides |-> istrides,
         output_shape |-> os,
         data_field |-> df,
         standard_layout_data_field |->
             [i \in 1 .. Prod(o.kernel) |->
                 SumSeq([r \in 1 .. rank |-> df[i][r] * istrides[r]])],
         padded |-> \E r \in 1 .. rank :
                        \E x \in 0 .. os[r] - 1, kk \in 0 .. o.kernel[r] - 1 :
                            \/ x * o.strides[r] + kk - pb[r] < 0
                            \/ x * o.strides[r] + kk - pb[r] >= dims[r]]

PatchRank(patch) == Len(patch.kernel)

\* patch.at(spatial) for kernel element i (1-based): Some(offset) when the
\* input coordinate is in bounds on every axis, None otherwise.
PatchAtInBounds(patch, spatial, i) ==
    \A r \in 1 .. PatchRank(patch) :
        LET x == spatial[r] * patch.strides[r] + patch.data_field[i][r]
        IN  x >= 0 /\ x < patch.dims[r]

PatchAtOffset(patch, spatial, i) ==
    SumSeq([r \in 1 .. PatchRank(patch) |->
               spatial[r] * patch.strides[r] * patch.istrides[r]])
    + patch.standard_layout_data_field[i]

\* ------------------------------------------------------------- resolve

\* Mutant: the rank-2 test comes first and forgets `padded`.
SelectPatcher_Rank2Valid(padded, rank) ==
    IF rank = 2 THEN "Valid2d"
    ELSE IF ~padded /\ rank = 1 THEN "Valid1d"
    ELSE "Generic"

\* lines 60-68
SelectPatcher(padded, rank) ==
    IF ~padded /\ rank = 2 THEN "Valid2d"
    ELSE IF rank = 2 THEN "Padded2d"
    ELSE IF ~padded /\ rank = 1 THEN "Valid1d"
    ELSE "Generic"

\* lines 58-74: SymbolicGeometry::resolve, when to_concrete succeeds
Resolve(o, shape) ==
    LET patch == MakePatch(o, shape)
        ci_per_group == c_dim(o.fmt, shape) \div o.group
    IN  [patch |-> patch,
         patcher |-> SelectPatcher(patch.padded, PatchRank(patch)),
         ci_per_group |-> ci_per_group,
         k |-> Prod(o.kernel) * ci_per_group,
         n |-> Prod(OutputHW(o, shape))]

\* -------------------------------------------------------------- Packer

\* Packer::len(n)
PackerLen(pk, nn) == CeilDiv(nn, pk.pw) * (pk.k + pk.ep) * pk.pw

\* Where a packed operand holds element (krow, col) of the k x n matrix.
PackedOffset(pk, krow, col) ==
    (col \div pk.pw) * (pk.k + pk.ep) * pk.pw + krow * pk.pw + (col % pk.pw)

\* b_pack.write_with_k_outer(pack, n) fed `stream`, of at most k * n values:
\* the t-th value written (0-based) is element (t / n, t % n). Gives
\* destination offset -> value.
WriteWithKOuter(pk, nn, stream) ==
    LET at(t) == PackedOffset(pk, (t - 1) \div nn, (t - 1) % nn)
        panel == (pk.k + pk.ep) * pk.pw
        from(d) == ((d % panel) \div pk.pw) * nn
                   + (d \div panel) * pk.pw + (d % pk.pw) + 1
    IN  [d \in { at(t) : t \in 1 .. Len(stream) } |-> stream[from(d)]]

\* b_pack.pack(pack, dense, 0, 1): dense is a function on (krow, col); the
\* columns that complete the last panel repeat the last column.
Pack(pk, nn, dense) ==
    LET panel == (pk.k + pk.ep) * pk.pw
        cells == { <<p, krow, w>> : p \in 0 .. CeilDiv(nn, pk.pw) - 1,
                                    krow \in 0 .. pk.k - 1,
                                    w \in 0 .. pk.pw - 1 }
    IN  [d \in { x[1] * panel + x[2] * pk.pw + x[3] : x \in cells } |->
            dense[<<(d % panel) \div pk.pw,
                    Min((d \div panel) * pk.pw + (d % pk.pw), nn - 1)>>]]

\* ------------------------------------------------------------- Patcher

\* What a Patcher writes: an element read at an input offset, the pad value,
\* or an element of the dense matrix that was never set.
Src(off) == [kind |-> "in", off |-> off]

PadSrc == [kind |-> "pad", off |-> 0]

UninitSrc == [kind |-> "uninit", off |-> 0]

\* lines 263-294: the dense k x n matrix of Patcher::generic
GenericDense(imk, geo, shape, base, g) ==
    LET patch == geo.patch
        klen == Len(patch.standard_layout_data_field)
        os == patch.output_shape
        ptr == base + shape.c_stride * (g * geo.ci_per_group)
        spatial == [t \in 0 .. geo.n - 1 |->
                       [r \in 1 .. Len(os) |-> Coord(os, t, r)]]
    IN  [x \in (0 .. imk - 1) \X (0 .. geo.n - 1) |->
            LET ci == x[1] \div klen
                ki == (x[1] % klen) + 1
            IN  IF ci >= geo.ci_per_group THEN UninitSrc
                ELSE IF PatchAtInBounds(patch, spatial[x[2]], ki)
                     THEN Src(ptr + shape.c_stride * ci
                              + PatchAtOffset(patch, spatial[x[2]], ki))
                     ELSE PadSrc]

\* lines 297-323: the values Patcher::valid_1d writes, in order
Valid1dStream(geo, shape, base, g) ==
    LET patch == geo.patch
        klen == Len(patch.standard_layout_data_field)
        x_stride == shape.h_stride * patch.strides[1]
        c_stride_ptr == shape.c_stride
        iptr == base + g * geo.ci_per_group * shape.c_stride
        o0 == patch.output_shape[1]
    IN  [t \in 1 .. geo.ci_per_group * klen * o0 |->
            LET ci == (t - 1) \div (klen * o0)
                ki == ((t - 1) \div o0) % klen
                x == (t - 1) % o0
            IN  Src(iptr + ci * c_stride_ptr
                    + patch.standard_layout_data_field[ki + 1]
                    + x * x_stride)]

\* Mutant: the left bound of the column test is off by one (x > 0).
Padded2dStream_XFromOne(geo, shape, base, g) ==
    LET patch == geo.patch
        y_stride == patch.strides[1]
        x_stride == patch.strides[2]
        y_stride_ptr == y_stride * shape.h_stride
        x_stride_ptr == x_stride * shape.w_stride
        c_stride_ptr == shape.c_stride
        input_heigth == shape.hw_dims[1]
        input_width == shape.hw_dims[2]
        kernel_len == Len(patch.standard_layout_data_field)
        iptr == base + g * geo.ci_per_group * shape.c_stride
        o0 == patch.output_shape[1]
        o1 == patch.output_shape[2]
    IN  [t \in 1 .. geo.ci_per_group * kernel_len * o0 * o1 |->
            LET ci == (t - 1) \div (kernel_len * o0 * o1)
                kitem == ((t - 1) \div (o0 * o1)) % kernel_len
                yo == ((t - 1) \div o1) % o0
                xo == (t - 1) % o1
                dy == patch.data_field[kitem + 1][1]
                dx == patch.data_field[kitem + 1][2]
                y == yo * y_stride + dy
                x == xo * x_stride + dx
            IN  IF y >= 0 /\ y < input_heigth
                THEN IF x > 0 /\ x < input_width
                     THEN Src(iptr + ci * c_stride_ptr
                              + patch.standard_layout_data_field[kitem + 1]
                              + yo * y_stride_ptr + xo * x_stride_ptr)
                     ELSE PadSrc
                ELSE PadSrc]

\* lines 326-378: the values Patcher::padded_2d writes, in order
Padded2dStream(geo, shape, base, g) ==
    LET patch == geo.patch
        y_stride == patch.strides[1]
        x_stride == patch.strides[2]
        y_stride_ptr == y_stride * shape.h_stride
        x_stride_ptr == x_stride * shape.w_stride
        c_stride_ptr == shape.c_stride
        input_heigth == shape.hw_dims[1]
        input_width == shape.hw_dims[2]
        kernel_len == Len(patch.standard_layout_data_field)
        iptr == base + g * geo.ci_per_group * shape.c_stride
        o0 == patch.output_shape[1]
        o1 == patch.output_shape[2]
    IN  [t \in 1 .. geo.ci_per_group * kernel_len * o0 * o1 |->
            LET ci == (t - 1) \div (kernel_len * o0 * o1)
                kitem == ((t - 1) \div (o0 * o1)) % kernel_len
                yo == ((t - 1) \div o1) % o0
                xo == (t - 1) % o1
                dy == patch.data_field[kitem + 1][1]
                dx == patch.data_field[kitem + 1][2]
                y == yo * y_stride + dy
                x == xo * x_stride + dx
            IN  IF y >= 0 /\ y < input_heigth
                THEN IF x >= 0 /\ x < input_width
                     THEN Src(iptr + ci * c_stride_ptr
                              + patch.standard_layout_data_field[kitem + 1]
                              + yo * y_stride_ptr + xo * x_stride_ptr)
                     ELSE PadSrc
                ELSE PadSrc]

\* Mutant: the input pointer does not advance to the channels of group g.
Valid2dStream_NoGroupBase(geo, shape, base, g) ==
    LET patch == geo.patch
        klen == Len(patch.standard_layout_data_field)
        y_stride_ptr == patch.strides[1] * shape.h_stride
        x_stride_ptr == patch.strides[2] * shape.w_stride
        c_stride_ptr == shape.c_stride
        iptr == base
        o0 == patch.output_shape[1]
        o1 == patch.output_shape[2]
    IN  [t \in 1 .. geo.ci_per_group * klen * o0 * o1 |->
            LET ci == (t - 1) \div (klen * o0 * o1)
                ki == ((t - 1) \div (o0 * o1)) % klen
                y == ((t - 1) \div o1) % o0
                x == (t - 1) % o1
            IN  Src(iptr + ci * c_stride_ptr
                    + patch.standard_layout_data_field[ki + 1]
                    + y * y_stride_ptr + x * x_stride_ptr)]

\* lines 381-413: the values Patcher::valid_2d writes, in order
Valid2dStream(geo, shape, base, g) ==
    LET patch == geo.patch
        klen == Len(patch.standard_layout_data_field)
        y_stride_ptr == patch.strides[1] * shape.h_stride
        x_stride_ptr == patch.strides[2] * shape.w_stride
        c_stride_ptr == shape.c_stride
        iptr == base + g * geo.ci_per_group * shape.c_stride
        o0 == patch.output_shape[1]
        o1 == patch.output_shape[2]
    IN  [t \in 1 .. geo.ci_per_group * klen * o0 * o1 |->
            LET ci == (t - 1) \div (klen * o0 * o1)
                ki == ((t - 1) \div (o0 * o1)) % klen
                y == ((t - 1) \div o1) % o0
                x == (t - 1) % o1
            IN  Src(iptr + ci * c_stride_ptr
                    + patch.standard_layout_data_field[ki + 1]
                    + y * y_stride_ptr + x * x_stride_ptr)]

\* lines 228-260: Patcher::patch. Gives, for each offset of the destination
\* view `pack` that is written, what is written there; `shape` is the
\* DataShape of the input and `base` the offset of the input view.
Patch(patcher, o, geo, shape, base, g) ==
    LET b_pack == [k |-> o.k, pw |-> o.pw, ep |-> o.ep]
    IN  CASE patcher = "Valid1d" ->
                WriteWithKOuter(b_pack, geo.n, Valid1dStream(geo, shape, base, g))
          [] patcher = "Valid2d" ->
                WriteWithKOuter(b_pack, geo.n, Valid2dStream(geo, shape, base, g))
          [] patcher = "Padded2d" ->
                WriteWithKOuter(b_pack, geo.n, Padded2dStream(geo, shape, base, g))
          [] OTHER ->
                Pack(b_pack, geo.n, GenericDense(o.k, geo, shape, base, g))

\* ---------------------------------------------------------- Im2Col::eval

\* The input tensor holds distinct values: element `off` of its buffer is
\* off + 1. A read outside the buffer yields Garbage.
InputAt(off, size) == IF off >= 0 /\ off < size THEN off + 1 ELSE Garbage

\* Mutant: the pad value handed to eval is ignored, zero is written instead.
SrcValue_ZeroPad(src, pad_value, size) ==
    CASE src.kind = "in" -> InputAt(src.off, size)
      [] src.kind = "pad" -> 0
      [] OTHER -> Garbage

SrcValue(src, pad_value, size) ==
    CASE src.kind = "in" -> InputAt(src.off, size)
      [] src.kind = "pad" -> pad_value
      [] OTHER -> Garbage

\* lines 103-114: Im2Col::output_shape
OutputShape(o, shape) ==
    (IF HasN(o.fmt) THEN <<shape[1]>> ELSE << >>)
    \o (IF o.group # 1 THEN <<o.group>> ELSE << >>)
    \o <<PackerLen([k |-> o.k, pw |-> o.pw, ep |-> o.ep],
                   Prod(OutputHW(o, shape)))>>

\* Mutant: only the first axis is tested for zero.
AnyZero_FirstOnly(shape) == shape[1] = 0

\* line 158: output_shape.iter().any(|d| *d == 0)
AnyZero(shape) == \E j \in 1 .. Len(shape) : shape[j] = 0

\* Im2Col::new (lines 84-101) for a PoolSpec, a group and the k of the
\* convolution (kernel volume times channels per group), and the input tensor
\* eval is then called with; `rem` extra channels make C not divisible by group,
\* and an input of the wrong rank (a sample of them) has lost its last axis.
InitIm2Col ==
    /\ MMMIdle
    /\ PackIdle
    /\ \E ps \in PoolShapes, fmt \in Formats, group \in Groups,
          cpg \in ChannelsPerGroup, padding \in Paddings, bp \in BPacks,
          batch \in 0 .. MaxBatch, rankOk \in BOOLEAN :
          \E rem \in 0 .. group - 1 :
             /\ HasN(fmt) \/ batch = 1
             /\ rankOk \/ (bp.pw = 1 /\ cpg = 1 /\ rem = 0 /\ batch = 1)
             /\ rem = 0 \/ (bp.pw = 1 /\ cpg = 1 /\ padding = "Valid")
             /\ op = [fmt |-> fmt, group |-> group, kernel |-> ps.kernel,
                      strides |-> ps.strides, padding |-> padding,
                      k |-> Prod(ps.kernel) * cpg, pw |-> bp.pw, ep |-> bp.ep]
             /\ inShape =
                   LET full == FullShape(fmt, batch, group * cpg + rem, ps.sp)
                   IN  IF rankOk THEN full ELSE SubSeq(full, 1, Len(full) - 1)
    /\ padInput = << >>
    /\ geometry = << >>
    /\ outShape = << >>
    /\ out = << >>
    /\ ei = 0 /\ eg = 0
    /\ patchLog = << >>
    /\ epc = "start"
    /\ eresult = "none"

\* line 137: self.geometry.to_concrete(inputs[0].shape())?
EvalResolve ==
    /\ epc = "start"
    /\ IF ShapeOk(op, inShape)
       THEN /\ geometry' = Resolve(op, inShape)
            /\ epc' = "alloc"
            /\ eresult' = eresult
       ELSE /\ geometry' = geometry
            /\ epc' = "done"
            /\ eresult' = "ShapeError"
    /\ UNCHANGED <<op, inShape, padInput, outShape, out, ei, eg, patchLog>>
    /\ UNCHANGED <<mmmVars, packVars>>

\* lines 139-159: the inputs are taken, the output tensor is allocated, the
\* degenerate N and G axes are inserted, and the loop is entered (when no
\* output dimension is zero and 0..N is not empty) or skipped.
EvalAlloc ==
    /\ epc = "alloc"
    /\ \E pv \in PadInputs : padInput' = pv
    /\ LET output_shape == OutputShape(op, inShape)
           withN == IF ~HasN(op.fmt) THEN InsertAxis(output_shape, 0)
                    ELSE output_shape
       IN  /\ outShape' = IF op.group = 1 THEN InsertAxis(withN, 1) ELSE withN
           /\ epc' = IF ~AnyZero(output_shape) /\ 0 < IF HasN(op.fmt) THEN inShape[1] ELSE 1
                     THEN "loop" ELSE "finish"
    /\ inShape' = IF ~HasN(op.fmt) THEN InsertAxis(inShape, 0) ELSE inShape
    /\ UNCHANGED <<op, geometry, out, ei, eg, patchLog, eresult>>
    /\ UNCHANGED <<mmmVars, packVars>>

\* lines 159-176: one Patcher invocation, for batch item ei and group eg
PatchStep ==
    /\ epc = "loop"
    /\ LET input_shape ==
               DataShapeOf(WithN(op.fmt), inShape, Len(op.kernel))
           base == PrefixOffset(inShape, <<ei>>)
           full_prefix == <<ei, eg>>
           actual_prefix ==
               SubSeq(full_prefix, 1, IF op.group > 1 THEN 2 ELSE 1)
           packed == PrefixOffset(outShape, actual_prefix)
           pad_value == IF padInput = << >> THEN 0 ELSE padInput[1]
           w == Patch(geometry.patcher, op, geometry, input_shape, base, eg)
       IN  /\ patchLog' = Append(patchLog,
                 [i |-> ei, g |-> eg, patcher |-> geometry.patcher,
                  packed |-> packed, srcs |-> w])
           /\ out' = [x \in { packed + d : d \in DOMAIN w } |->
                        SrcValue(patchLog'[Len(patchLog')].srcs[x - packed],
                                 pad_value, input_shape.size)]
                     @@ out
    /\ IF eg + 1 < op.group
       THEN eg' = eg + 1 /\ ei' = ei /\ epc' = epc
       ELSE IF ei + 1 < DataShapeOf(WithN(op.fmt), inShape, Len(op.kernel)).n
            THEN eg' = 0 /\ ei' = ei + 1 /\ epc' = epc
            ELSE eg' = eg /\ ei' = ei /\ epc' = "finish"
    /\ UNCHANGED <<op, inShape, padInput, geometry, outShape, eresult>>
    /\ UNCHANGED <<mmmVars, packVars>>

\* Mutant: the degenerate N axis of the output is left in place.
EvalFinish_KeepsN ==
    /\ epc = "finish"
    /\ outShape' = IF op.group = 1 THEN RemoveAxis(outShape, 1) ELSE outShape
    /\ epc' = "done"
    /\ eresult' = "Ok"
    /\ UNCHANGED <<op, inShape, padInput, geometry, out, ei, eg, patchLog>>
    /\ UNCHANGED <<mmmVars, packVars>>

\* lines 178-185: the degenerate axes are removed and the output returned
EvalFinish ==
    /\ epc = "finish"
    /\ outShape' =
          LET noG == IF op.group = 1 THEN RemoveAxis(outShape, 1) ELSE outShape
          IN  IF ~HasN(op.fmt) THEN RemoveAxis(noG, 0) ELSE noG
    /\ epc' = "done"
    /\ eresult' = "Ok"
    /\ UNCHANGED <<op, inShape, padInput, geometry, out, ei, eg, patchLog>>
    /\ UNCHANGED <<mmmVars, packVars>>

NextIm2Col ==
    \/ EvalResolve
    \/ EvalAlloc
    \/ PatchStep
    \/ EvalFinish

SpecIm2Col == InitIm2Col /\ [][NextIm2Col]_vars

SpecMMM == InitMMM /\ [][NextMMM]_vars

\* ------------------------------------------- packers and packed stores

\* Packer::new(k, r, alignment, end_padding)
PackerNew(kk, r, alignment, end_padding) ==
    [kind |-> "Packer", k |-> kk, pw |-> r, alignment |-> alignment,
     ep |-> end_padding]

\* lines 149-151: a_packed(dt)
APackedSpec(size_of) ==
    [kind |-> "Packed", panel_bytes |-> k * mr * size_of, size_of |-> size_of]

\* lines 153-155: b_packed(dt)
BPackedSpec(size_of) ==
    [kind |-> "Packed", panel_bytes |-> k * nr * size_of, size_of |-> size_of]

\* A MatMatMulImpl over a kernel K, no call of run in progress.
InitPack ==
    /\ Im2ColIdle
    /\ mr \in TileSizes
    /\ nr \in TileSizes
    /\ k \in 0 .. MaxK
    /\ m = 0 /\ n = 0
    /\ operands = [seed |-> 0, pad |-> 0]
    /\ build = "release"
    /\ pc = "off"
    /\ entry = "none"
    /\ scratch = [kind |-> "none", ti |-> "none"]
    /\ ia = 0 /\ ib = 0
    /\ c = << >>
    /\ calls = << >>
    /\ nErr = 0
    /\ result = "none"
    /\ \E ea \in 0 .. MaxEndPadding, eb \in 0 .. MaxEndPadding,
          al \in Alignments :
          K = [end_padding_packed_a |-> ea, end_padding_packed_b |-> eb,
                 alignment_bytes_packed_a |-> al, alignment_bytes_packed_b |-> al]
    /\ packers = [a |-> NoneYet, b |-> NoneYet]
    /\ stores = [a |-> NoneYet, b |-> NoneYet]

\* lines 137-139: a_pack()
APack ==
    /\ pc = "off"
    /\ packers' = [packers EXCEPT !.a =
          PackerNew(k, mr, K.alignment_bytes_packed_a, K.end_padding_packed_a)]
    /\ UNCHANGED <<K, stores, mmmVars, imVars>>

\* lines 141-143: b_pack()
BPack ==
    /\ pc = "off"
    /\ packers' = [packers EXCEPT !.b =
          PackerNew(k, nr, K.alignment_bytes_packed_b, K.end_padding_packed_b)]
    /\ UNCHANGED <<K, stores, mmmVars, imVars>>

\* lines 149-151: a_packed(dt)
APacked ==
    /\ pc = "off"
    /\ \E size_of \in DatumSizes : stores' = [stores EXCEPT !.a = APackedSpec(size_of)]
    /\ UNCHANGED <<K, packers, mmmVars, imVars>>

\* lines 153-155: b_packed(dt)
BPacked ==
    /\ pc = "off"
    /\ \E size_of \in DatumSizes : stores' = [stores EXCEPT !.b = BPackedSpec(size_of)]
    /\ UNCHANGED <<K, packers, mmmVars, imVars>>

NextPack ==
    \/ APack
    \/ BPack
    \/ APacked
    \/ BPacked

SpecPack == InitPack /\ [][NextPack]_vars

\* ------------------------------------------------ the general ib-loop path

\* lines 252-282: the else branch for full A panel i
GeneralRow(i) ==
    [j \in 1 .. n \div nr |-> FullTileCall(i, j - 1)]
        \o (IF n % nr # 0 THEN <<PartialNCall(i)>> ELSE << >>)

\* lines 303-334: the else branch for the partial A panel
GeneralLastRow ==
    [j \in 1 .. n \div nr |-> LastFullCall(j - 1)]
        \o (IF n % nr # 0 THEN <<LastPartialCall>> ELSE << >>)

RECURSIVE GeneralFullRows(_)
GeneralFullRows(cnt) ==
    IF cnt = 0 THEN << >>
    ELSE GeneralFullRows(cnt - 1) \o GeneralRow(cnt - 1)

\* lines 235-336 with both `K::nr() == 1 && n == 1` tests taken as false
GeneralPath ==
    GeneralFullRows(m \div mr) \o (IF m % mr # 0 THEN GeneralLastRow ELSE << >>)

RECURSIVE RunCalls(_, _)
RunCalls(cur, cs) ==
    IF cs = << >> THEN cur
    ELSE RunCalls(SetTile(cur, Head(cs), TRUE, TRUE), Tail(cs))

\* ------------------------------------------------------ claims C1 .. C6

RECURSIVE DotAB(_, _, _)
DotAB(i, j, kk) ==
    IF kk = 0 THEN 0 ELSE DotAB(i, j, kk - 1) + A(i, kk - 1) * B(kk - 1, j)

\* A and B padded with zeros to the next multiple of mr rows and nr columns.
ZeroPadA(i, kk) == IF i < m THEN A(i, kk) ELSE 0

ZeroPadB(kk, j) == IF j < n THEN B(kk, j) ELSE 0

RECURSIVE DotPadded(_, _, _)
DotPadded(i, j, kk) ==
    IF kk = 0 THEN 0
    ELSE DotPadded(i, j, kk - 1) + ZeroPadA(i, kk - 1) * ZeroPadB(kk - 1, j)

Extent == (0 .. m - 1) \X (0 .. n - 1)

Succeeded == pc = "done" /\ result = "Ok"

\* C1: a run whose kernel invocations all succeed ends with exactly the m x n
\* elements of C written, C[i,j] being the sum over kk < k of A[i,kk]*B[kk,j],
\* which is also the product of the zero-padded operands, trimmed.
C1_MatMulCorrect ==
    (Succeeded /\ nErr = 0) =>
        /\ DOMAIN c = Extent
        /\ \A p \in Extent : c[p] = DotAB(p[1], p[2], k)
        /\ \A p \in Extent : c[p] = DotPadded(p[1], p[2], k)

C1_Witness ==
    /\ Succeeded /\ nErr = 0
    /\ k = 2 /\ mr = 2 /\ nr = 4 /\ m = 5 /\ n = 5
    /\ c[<<4, 4>>] = DotAB(4, 4, 2)

\* C2: the kernel's target is C's own tile exactly when the tile is fully in
\* bounds (down < m/mr and right < n/nr); otherwise it is the scratch tile and
\* the rectangle copied back is min(mr, m - down*mr) x min(nr, n - right*nr);
\* no element outside the m x n extent of C is ever written; for mr = nr = 4,
\* m = n = 5: one direct 4x4 tile, then scratch tiles copied as 4x1, 1x4, 1x1.
C2_DirectIffInBounds ==
    /\ \A x \in 1 .. Len(calls) :
          LET cl == calls[x] IN
          /\ cl.target \in {"direct", "scratch"}
          /\ cl.target = "direct" <=>
                (cl.down < m \div mr /\ cl.right < n \div nr)
          /\ cl.target = "scratch" =>
                /\ cl.rows = Min(mr, m - cl.down * mr)
                /\ cl.cols = Min(nr, n - cl.right * nr)
    /\ DOMAIN c \subseteq Extent
    /\ (Succeeded /\ mr = 4 /\ nr = 4 /\ m = 5 /\ n = 5) =>
          [x \in 1 .. Len(calls) |->
              <<calls[x].target, calls[x].rows, calls[x].cols>>]
          = << <<"direct", 4, 4>>, <<"scratch", 4, 1>>,
               <<"scratch", 1, 4>>, <<"scratch", 1, 1>> >>

C2_Witness ==
    /\ Succeeded /\ mr = 4 /\ nr = 4 /\ m = 5 /\ n = 5
    /\ Len(calls) = 4
    /\ calls[2].target = "scratch"
    /\ <<3, 4>> \in DOMAIN c

\* C3: the kernel invocations are, in order, the tiles of
\* [0, ceil(m/mr)) x [0, ceil(n/nr)) in lexicographic order (down outer, right
\* inner), each given A panel `down`, B panel `right` and the linear spec k; a
\* successful run makes exactly ceil(m/mr) * ceil(n/nr) of them.
C3_LexicographicTiles ==
    /\ \A x \in 1 .. Len(calls) :
          /\ calls[x].down = (x - 1) \div CeilDiv(n, nr)
          /\ calls[x].right = (x - 1) % CeilDiv(n, nr)
          /\ calls[x].pa = calls[x].down
          /\ calls[x].pb = calls[x].right
          /\ calls[x].lin = k
    /\ Succeeded => Len(calls) = CeilDiv(m, mr) * CeilDiv(n, nr)

C3_Witness ==
    /\ Succeeded /\ mr = 2 /\ nr = 2 /\ m = 5 /\ n = 3
    /\ Len(calls) = 6
    /\ calls[6].down = 2 /\ calls[6].right = 1

\* C4: when nr = 1 and n = 1 the dedicated branch makes the invocations the
\* general ib-loop path makes (same panels, target and copy-back rectangle),
\* and C ends as the general path leaves it.
C4_MatVecAsGeneral ==
    Succeeded =>
        /\ calls = GeneralPath
        /\ nErr = 0 => c = RunCalls(<< >>, GeneralPath)

C4_Witness ==
    /\ Succeeded /\ IsMatVec /\ nErr = 0
    /\ mr = 2 /\ m = 5 /\ k = 2
    /\ Len(calls) = 3
    /\ DOMAIN c = Extent

\* C5: run_with_scratch_space is rejected with "Wrong scratch space type"
\* exactly when can_use_scratch_space is false for the scratch it is given,
\* before any kernel invocation and any write to C; run is never rejected so.
C5_WrongScratchRejected ==
    /\ result = "WrongScratch" =>
          /\ calls = << >>
          /\ c = << >>
          /\ pc = "done"
          /\ entry = "run_with_scratch_space"
    /\ pc # "idle" =>
          (result = "WrongScratch" <=> ~CanUseScratchSpace(scratch))
    /\ entry = "run" => result # "WrongScratch"

C5_Witness ==
    /\ result = "WrongScratch"
    /\ scratch = [kind |-> "ScratchSpaceFusedNonLinear", ti |-> "f32"]
    /\ m > 0 /\ n > 0

\* C6: a call in which the kernel returned a non-zero status does not end as
\* a success.
C6_KernelErrorSurfaces == (pc = "done" /\ nErr > 0) => result # "Ok"

\* ------------------------------------------------------ claims C7 .. C10

Resolved == epc \in {"alloc", "loop", "finish", "done"} /\ eresult # "ShapeError"

Returned == epc = "done" /\ eresult = "Ok"

\* The input shape eval was called with (eval inserts the N axis only once
\* the geometry is resolved), and its DataShape with N.
CalledShape ==
    IF epc \in {"start", "alloc"} \/ HasN(op.fmt) \/ eresult = "ShapeError"
    THEN inShape
    ELSE RemoveAxis(inShape, 0)

InputShapeN == DataShapeOf(WithN(op.fmt), inShape, Len(op.kernel))

\* C7: the Patcher of a resolved geometry is a function of (rank, padded) of
\* its Patch: Valid2d iff rank 2 and not padded, Padded2d iff rank 2 and
\* padded, Valid1d iff rank 1 and not padded, Generic otherwise; Valid1d and
\* Valid2d are never selected for a padded Patch.
C7_PatcherSelection ==
    Resolved =>
        LET rank == Len(geometry.patch.kernel)
            padded == geometry.patch.padded
            patcher == geometry.patcher
        IN  /\ patcher \in {"Valid1d", "Valid2d", "Padded2d", "Generic"}
            /\ patcher = "Valid2d" <=> (rank = 2 /\ ~padded)
            /\ patcher = "Padded2d" <=> (rank = 2 /\ padded)
            /\ patcher = "Valid1d" <=> (rank = 1 /\ ~padded)
            /\ patcher = "Generic" <=> ((rank = 1 /\ padded) \/ rank >= 3)
            /\ padded => patcher \notin {"Valid1d", "Valid2d"}

C7_Witness ==
    /\ Resolved
    /\ Len(geometry.patch.kernel) = 2
    /\ geometry.patch.padded
    /\ geometry.patcher = "Padded2d"

\* The shape the claims give the output: N if the format carries it, G if
\* group > 1, then Packer.len(n), n the product of the output spatial dims.
ClaimedOutputShape ==
    LET nn == Prod(OutputHW(op, CalledShape))
    IN  (IF op.fmt \in {"NCHW", "NHWC"} THEN <<CalledShape[1]>> ELSE << >>)
        \o (IF op.group > 1 THEN <<op.group>> ELSE << >>)
        \o <<((nn + op.pw - 1) \div op.pw) * (op.k + op.ep) * op.pw>>

\* C8: the tensor eval returns has the shape [N if the format carries N] ++
\* [G if group > 1] ++ [Packer.len(n)]; inside the loop the output has exactly
\* the three axes N, G and the packed one.
C8_OutputShape ==
    /\ Returned => outShape = ClaimedOutputShape
    /\ epc \in {"loop", "finish"} =>
          /\ Len(outShape) = 3
          /\ Prod(outShape) = Prod(ClaimedOutputShape)

C8_Witness ==
    /\ Returned
    /\ op.fmt = "HWC" /\ op.group = 1
    /\ Len(outShape) = 1 /\ outShape[1] > 0
    /\ patchLog # << >>

\* C9: when a dimension of the output shape is zero (in particular when an
\* output spatial dimension is zero) eval never invokes the Patcher, writes
\* nothing and returns Ok with the output shape; otherwise it runs the loop.
C9_ZeroDimSkipsLoop ==
    /\ (Resolved /\ \E j \in DOMAIN ClaimedOutputShape : ClaimedOutputShape[j] = 0) =>
          /\ patchLog = << >>
          /\ out = << >>
          /\ epc # "loop"
          /\ epc = "done" => eresult = "Ok" /\ outShape = ClaimedOutputShape
    /\ (Resolved /\ \E r \in DOMAIN geometry.patch.output_shape :
                        geometry.patch.output_shape[r] = 0) =>
          patchLog = << >> /\ out = << >>
    /\ (Returned /\ \A j \in DOMAIN ClaimedOutputShape : ClaimedOutputShape[j] # 0) =>
          Len(patchLog) = InputShapeN.n * op.group

C9_Witness ==
    /\ Returned
    /\ CalledShape[1] > 0
    /\ \E r \in DOMAIN geometry.patch.output_shape :
          geometry.patch.output_shape[r] = 0
    /\ patchLog = << >>

\* The input offsets one Patcher invocation read, and the output offsets it
\* wrote.
Reads(e) == { e.srcs[d].off : d \in { x \in DOMAIN e.srcs : e.srcs[x].kind = "in" } }

Writes(e) == { e.packed + d : d \in DOMAIN e.srcs }

\* Batch item and channel of an offset of the input buffer.
BatchOf(off) == off \div (InputShapeN.size \div InputShapeN.n)

ChannelOf(off) == (off \div InputShapeN.c_stride) % InputShapeN.c

\* A group-1 Im2Col on the input restricted to the channels of group g: what
\* its Patcher leaves in the region of batch item i.
GroupOneRegion(i, g) ==
    LET cpg == InputShapeN.c \div op.group
        fmt == WithN(op.fmt)
        op1 == [op EXCEPT !.group = 1, !.fmt = fmt]
        shape1 == [inShape EXCEPT ![CAxis(fmt, inShape)] = cpg]
        geo1 == Resolve(op1, shape1)
        ds1 == DataShapeOf(fmt, shape1, Len(op.kernel))
        w == Patch(geo1.patcher, op1, geo1, ds1, PrefixOffset(shape1, <<i>>), 0)
        cs == InputShapeN.c_stride
        full(off) == (off \div (cpg * cs)) * (InputShapeN.c * cs)
                     + (g * cpg + ((off \div cs) % cpg)) * cs + (off % cs)
        pad_value == IF padInput = << >> THEN 0 ELSE padInput[1]
    IN  [d \in DOMAIN w |->
            LET src == w[d]
            IN  IF src.kind = "in"
                THEN IF src.off >= 0 /\ src.off < ds1.size
                     THEN InputAt(full(src.off), InputShapeN.size)
                     ELSE Garbage
                ELSE SrcValue(src, pad_value, ds1.size)]

\* C10: with C divisible by group and no zero output dimension, eval invokes
\* the Patcher once per (i, g), in order; invocation (i, g) reads only channels
\* [g*Ci', (g+1)*Ci') of batch item i, writes only the region of the output at
\* prefix [i, g], regions of distinct pairs are disjoint, and the region holds
\* what a group-1 Im2Col leaves there on the input restricted to those channels.
C10_GroupedAsGroupOne ==
    (Returned /\ patchLog # << >> /\ InputShapeN.c % op.group = 0) =>
        LET len == ClaimedOutputShape[Len(ClaimedOutputShape)]
            cpg == InputShapeN.c \div op.group
        IN  /\ Len(patchLog) = InputShapeN.n * op.group
            /\ \A i \in 0 .. InputShapeN.n - 1, g \in 0 .. op.group - 1 :
                  LET e == patchLog[i * op.group + g + 1]
                      region == (i * op.group + g) * len
                  IN  /\ e.i = i /\ e.g = g
                      /\ \A off \in Reads(e) :
                            /\ off >= 0 /\ off < InputShapeN.size
                            /\ BatchOf(off) = i
                            /\ ChannelOf(off) \in g * cpg .. (g + 1) * cpg - 1
                      /\ Writes(e) \subseteq region .. region + len - 1
                      /\ [d \in DOMAIN e.srcs |-> out[e.packed + d]]
                            = GroupOneRegion(i, g)
            /\ \A x, y \in 1 .. Len(patchLog) :
                  x # y => Writes(patchLog[x]) \cap Writes(patchLog[y]) = {}

C10_Witness ==
    /\ Returned
    /\ op.fmt = "NCHW" /\ op.group = 2 /\ inShape = <<2, 4, 2, 2>>
    /\ op.kernel = <<2, 2>> /\ op.padding = "Valid"
    /\ Len(patchLog) = 4
    /\ Reads(patchLog[4]) = 24 .. 31

\* ------------------------------------------------------ claims C11 .. C15

\* What Patcher::generic leaves in the destination of invocation e, on the
\* same Im2Col, geometry, input view and group index.
GenericResult(e) ==
    Patch("Generic", op, geometry, InputShapeN,
          PrefixOffset(inShape, <<e.i>>), e.g)

PaddedStreamFor(e) ==
    Padded2dStream(geometry, InputShapeN, PrefixOffset(inShape, <<e.i>>), e.g)

ValidStreamFor(e) ==
    Valid2dStream(geometry, InputShapeN, PrefixOffset(inShape, <<e.i>>), e.g)

\* C12: on a rank-2 geometry none of whose window positions falls outside the
\* input, padded_2d writes the sequence of values valid_2d writes, in the same
\* order, never emits the pad value, and leaves the packed destination
\* valid_2d left.
C12_PaddedAsValidWhenNoPad ==
    \A x \in 1 .. Len(patchLog) :
        (patchLog[x].patcher = "Valid2d" /\ ~geometry.patch.padded) =>
            LET e == patchLog[x]
                ps == PaddedStreamFor(e)
            IN  /\ ps = ValidStreamFor(e)
                /\ \A t \in DOMAIN ps : ps[t].kind = "in"
                /\ Patch("Padded2d", op, geometry, InputShapeN,
                         PrefixOffset(inShape, <<e.i>>), e.g) = e.srcs

C12_Witness ==
    /\ Returned
    /\ geometry.patcher = "Valid2d" /\ ~geometry.patch.padded
    /\ op.kernel = <<2, 2>> /\ op.strides = <<1, 2>> /\ op.group = 2
    /\ geometry.patch.output_shape = <<1, 1>>
    /\ Len(patchLog) >= 2
    /\ Len(PaddedStreamFor(patchLog[2])) = 4 * geometry.ci_per_group
    /\ padInput = <<7>>

\* The channel count C of the input eval was called with.
CalledChannels == c_dim(op.fmt, CalledShape)

\* C13: for an input of the PoolSpec's rank whose channel count is not
\* divisible by group, no geometry is resolved, the Patcher is never invoked
\* and eval ends with a ShapeError.
C13_NonDivisibleGroupRejected ==
    (epc # "off" /\ ShapeOk(op, CalledShape)
       /\ CalledChannels % op.group # 0) =>
        /\ geometry = << >>
        /\ patchLog = << >>
        /\ epc \in {"start", "done"}
        /\ epc = "done" => eresult = "ShapeError"

\* The element of the input at batch item i, channel ch, row y, column x: the
\* input buffer holds 1 + (row-major index) at every index.
InputElement(i, ch, y, x) ==
    LET C == InputShapeN.c
        H == InputShapeN.hw_dims[1]
        W == InputShapeN.hw_dims[2]
    IN  IF WithN(op.fmt) = "NCHW"
        THEN 1 + ((i * C + ch) * H + y) * W + x
        ELSE 1 + ((i * H + y) * W + x) * C + ch

\* The value the claim gives the t-th (1-based) emission of padded_2d in
\* invocation e.
Padded2dExpected(e, t) ==
    LET klen == Prod(op.kernel)
        o0 == geometry.patch.output_shape[1]
        o1 == geometry.patch.output_shape[2]
        ci == (t - 1) \div (klen * o0 * o1)
        ki == ((t - 1) \div (o0 * o1)) % klen
        yo == ((t - 1) \div o1) % o0
        xo == (t - 1) % o1
        y == yo * op.strides[1] + geometry.patch.data_field[ki + 1][1]
        x == xo * op.strides[2] + geometry.patch.data_field[ki + 1][2]
    IN  IF y >= 0 /\ y < InputShapeN.hw_dims[1]
           /\ x >= 0 /\ x < InputShapeN.hw_dims[2]
        THEN [read |-> TRUE,
              value |-> InputElement(e.i, e.g * geometry.ci_per_group + ci, y, x)]
        ELSE [read |-> FALSE,
              value |-> IF padInput = << >> THEN 0 ELSE padInput[1]]

\* C14: padded_2d emits ci_per_group * kernel volume * H_out * W_out values,
\* ordered by ci, kernel element, yo, xo; the value for (ci, (dy, dx), yo, xo)
\* is the input element of channel g*ci_per_group + ci at (yo*sy + dy,
\* xo*sx + dx) when that is inside the input and the pad value (zero when none
\* is supplied) otherwise; the input is read only for positions inside it; the
\* values land in the destination in k-outer order; the 2x2 example gives the
\* rows [1,2,3,4], [2,0,4,0], [3,4,0,0], [4,0,0,0].
C14_Padded2dValues ==
    \A x \in 1 .. Len(patchLog) :
        patchLog[x].patcher = "Padded2d" =>
            LET e == patchLog[x]
                ps == PaddedStreamFor(e)
                b_pack == [k |-> op.k, pw |-> op.pw, ep |-> op.ep]
                o0 == geometry.patch.output_shape[1]
                o1 == geometry.patch.output_shape[2]
                vals == [t \in DOMAIN ps |->
                            IF ps[t].kind = "in"
                            THEN InputAt(ps[t].off, InputShapeN.size)
                            ELSE IF padInput = << >> THEN 0 ELSE padInput[1]]
            IN  /\ DOMAIN ps = 1 .. geometry.ci_per_group * Prod(op.kernel) * o0 * o1
                /\ \A t \in DOMAIN ps :
                      LET expected == Padded2dExpected(e, t)
                      IN  /\ (ps[t].kind = "in") = expected.read
                          /\ vals[t] = expected.value
                          /\ out[e.packed
                                 + PackedOffset(b_pack, (t - 1) \div (o0 * o1),
                                                (t - 1) % (o0 * o1))]
                                = expected.value
                /\ e.srcs = WriteWithKOuter(b_pack, geometry.n, ps)
                /\ (/\ InputShapeN.c = 1 /\ InputShapeN.hw_dims = <<2, 2>>
                    /\ e.i = 0 /\ op.kernel = <<2, 2>> /\ op.strides = <<1, 1>>
                    /\ op.padding = "SameUpper" /\ padInput = << >>) =>
                      vals = <<1, 2, 3, 4, 2, 0, 4, 0, 3, 4, 0, 0, 4, 0, 0, 0>>

C14_Witness ==
    /\ Returned
    /\ geometry.patcher = "Padded2d"
    /\ op.fmt = "NHWC" /\ inShape = <<1, 2, 2, 1>>
    /\ op.kernel = <<2, 2>> /\ op.strides = <<1, 1>>
    /\ op.padding = "SameUpper" /\ padInput = << >> /\ op.pw = 1
    /\ Len(patchLog) = 1
    /\ [d \in 0 .. 15 |-> out[d]]
          = [d \in 0 .. 15 |->
                <<1, 2, 3, 4, 2, 0, 4, 0, 3, 4, 0, 0, 4, 0, 0, 0>>[d + 1]]

\* Where the Packer p puts the first byte of panel x of an operand of
\* elements of size_of bytes: it lays panels out one after the other, each of
\* len(panel width) elements.
PackerPanelStart(p, x, size_of) == x * PackerLen(p, p.pw) * size_of

\* Where the driver looks for panel x of a Packed store.
StorePanelStart(store, x) == x * store.panel_bytes

\* C15: the panel_bytes of a_packed(dt) / b_packed(dt) is the byte size of
\* one panel of the Packer a_pack() / b_pack() returns,
\* (k + end_padding) * panel width * dt.size_of(), so that the driver finds
\* every panel where the Packer wrote it.
C15_PanelBytesMatchPacker ==
    \A side \in {"a", "b"} :
        (packers[side].kind = "Packer" /\ stores[side].kind = "Packed") =>
            LET p == packers[side]
                st == stores[side]
            IN  /\ st.panel_bytes = (p.k + p.ep) * p.pw * st.size_of
                /\ \A x \in 0 .. 2 :
                      StorePanelStart(st, x) = PackerPanelStart(p, x, st.size_of)

====
